---- MODULE Spec2Model ----
(***************************************************************************)
(* Irrigation controller of main/main.c: app_main, irrigation_task, the    *)
(* one-shot watering_timer and the auto-reload check_timer, with           *)
(* start_watering / stop_watering as the only writers of the pins and of   *)
(* is_watering.  Time is counted in RTOS ticks.                            *)
(***************************************************************************)
EXTENDS Integers, Naturals, Sequences, FiniteSets, TLC

\* ---- bounds of the model (the build's values are scaled down) ----
TickRateHz == 2          \* configTICK_RATE_HZ of the build (sdkconfig)
MaxDurationSec == 3      \* WATERING_DURATION_MS ranges over 1..MaxDurationSec seconds
MaxIntervalSec == 3      \* WATERING_INTERVAL_MS ranges over 1..MaxIntervalSec seconds
MaxTime == 40            \* ticks of simulated time
MaxCalls == 3            \* calls a test driver makes in SpecCmd
StatusEverySec == 2      \* loop passes between two status lines (3600 in the code)

\* ---- program constants ----
TIMER_PERIOD_MS == 1000
TASK_DELAY_MS == 1000    \* vTaskDelay(pdMS_TO_TICKS(1000)) of the task loop
MS_PER_HOUR == 3600000   \* (60 * 60 * 1000) in the status computation

VARIABLES
    WATERING_DURATION_MS,         \* compile-time configuration, fixed at Init
    WATERING_INTERVAL_MS,         \* compile-time configuration, fixed at Init
    pc_main,                      \* position of app_main
    task_pc,                      \* position of irrigation_task ("none": not created)
    motor, light,                 \* output level of MOTOR_DRIVER_PIN and LIGHT_PIN
    is_watering,
    seconds_since_last_watering,
    watering_timer,               \* [created, active, rem]: rem = ticks to expiry
    check_timer,                  \* [created, active, rem]
    now,                          \* ticks since boot
    warnings,                     \* number of ESP_LOGW lines emitted
    errors,                       \* number of ESP_LOGE lines emitted
    init_ok_logged,               \* "initialized successfully" was logged
    starts,                       \* cycles started (is_watering set to true)
    completed,                    \* cycles completed (is_watering set back to false)
    last_start, prev_start,       \* tick of the last two cycle starts (-1: none)
    last_stop,                    \* tick of the last cycle stop (-1: none)
    wt_start_calls,               \* xTimerStart calls made on watering_timer
    gpio_ok,                      \* the GPIO driver accepts gpio_config / gpio_set_level
    hour_counter,                 \* static hour_counter of irrigation_task
    task_delay,                   \* ticks left of the task's vTaskDelay
    hours_until_next              \* value computed by the last status report (-1: none)

cfg_vars   == <<WATERING_DURATION_MS, WATERING_INTERVAL_MS, gpio_ok>>
report_vars == <<hour_counter, task_delay, hours_until_next>>
boot_vars  == <<pc_main, errors, init_ok_logged>>
start_vars == <<motor, light, is_watering, watering_timer, warnings,
                starts, last_start, prev_start, wt_start_calls>>
vars == <<WATERING_DURATION_MS, WATERING_INTERVAL_MS, pc_main, task_pc, motor, light,
          is_watering, seconds_since_last_watering, watering_timer, check_timer, now,
          warnings, errors, init_ok_logged, starts, completed, last_start, prev_start,
          last_stop, wt_start_calls, gpio_ok, hour_counter, task_delay,
          hours_until_next>>

\* pdMS_TO_TICKS(ms) = ms * configTICK_RATE_HZ / 1000, integer division
pdMS_TO_TICKS(ms) == (ms * TickRateHz) \div 1000

DurationTicks == pdMS_TO_TICKS(WATERING_DURATION_MS)
PeriodTicks   == pdMS_TO_TICKS(TIMER_PERIOD_MS)
\* check ticks an idle phase lasts: least n with n * 1000 >= WATERING_INTERVAL_MS
IntervalSec   == (WATERING_INTERVAL_MS + 999) \div 1000
IntervalTicks == IntervalSec * PeriodTicks

\* a timer handle before xTimerCreate: NULL
NullTimer == [created |-> FALSE, active |-> FALSE, rem |-> 0, period |-> 0]

\* xTimerCreate: a dormant timer of the given period, or NULL when the heap is
\* exhausted
xTimerCreate(period, ok) ==
    IF ok THEN [created |-> TRUE, active |-> FALSE, rem |-> 0, period |-> period]
          ELSE NullTimer

\* xTimerStart(t, 0): (re)arms t to expire one period from now; with ok = FALSE
\* the command could not be queued and t is left as it was
xTimerStart(t, ok) ==
    IF ok THEN [t EXCEPT !.active = TRUE, !.rem = t.period] ELSE t

\* the state at reset, whatever the GPIO driver will answer
InitState ==
    /\ WATERING_DURATION_MS \in {s * 1000 : s \in 1..MaxDurationSec}
    /\ WATERING_INTERVAL_MS \in {s * 1000 : s \in 1..MaxIntervalSec}
    /\ hour_counter = 0
    /\ task_delay = 0
    /\ hours_until_next = -1
    /\ pc_main = "init_gpio"
    /\ task_pc = "none"
    /\ motor \in {0, 1}
    /\ light \in {0, 1}
    /\ is_watering = FALSE
    /\ seconds_since_last_watering = 0
    /\ watering_timer = NullTimer
    /\ check_timer = NullTimer
    /\ now = 0
    /\ warnings = 0
    /\ errors = 0
    /\ init_ok_logged = FALSE
    /\ starts = 0
    /\ completed = 0
    /\ last_start = -1
    /\ prev_start = -1
    /\ last_stop = -1
    /\ wt_start_calls = 0

\* MOTOR_DRIVER_PIN and LIGHT_PIN are valid output pins: the driver accepts
\* every call
Init ==
    /\ InitState
    /\ gpio_ok = TRUE

\* gpio_set_level(pin, level): the pin's new level; a call the driver rejects
\* leaves the pin as it was
gpio_set_level(pin_level, level) ==
    IF gpio_ok THEN level ELSE pin_level

\* ------------------------------------------------------------------------
\* start_watering / stop_watering
\* ------------------------------------------------------------------------

\* mutant: the is_watering guard is dropped, so a redundant start re-arms
start_watering_noguard(ok) ==
    /\ motor' = gpio_set_level(motor, 1)
    /\ light' = gpio_set_level(light, 1)
    /\ is_watering' = TRUE
    /\ watering_timer' = xTimerStart(watering_timer, ok)
    /\ wt_start_calls' = wt_start_calls + 1
    /\ starts' = starts + 1
    /\ prev_start' = last_start
    /\ last_start' = now
    /\ UNCHANGED warnings

\* mutant: only the motor is switched on
start_watering_nolight(ok) ==
    IF is_watering
    THEN /\ warnings' = warnings + 1
         /\ UNCHANGED <<motor, light, is_watering, watering_timer,
                        starts, last_start, prev_start, wt_start_calls>>
    ELSE /\ motor' = gpio_set_level(motor, 1)
         /\ UNCHANGED light
         /\ is_watering' = TRUE
         /\ watering_timer' = xTimerStart(watering_timer, ok)
         /\ wt_start_calls' = wt_start_calls + 1
         /\ starts' = starts + 1
         /\ prev_start' = last_start
         /\ last_start' = now
         /\ UNCHANGED warnings

start_watering(ok) ==
    IF is_watering
    THEN /\ warnings' = warnings + 1
         /\ UNCHANGED <<motor, light, is_watering, watering_timer,
                        starts, last_start, prev_start, wt_start_calls>>
    ELSE /\ motor' = gpio_set_level(motor, 1)
         /\ light' = gpio_set_level(light, 1)
         /\ is_watering' = TRUE
         /\ watering_timer' = xTimerStart(watering_timer, ok)
         /\ wt_start_calls' = wt_start_calls + 1
         /\ starts' = starts + 1
         /\ prev_start' = last_start
         /\ last_start' = now
         /\ UNCHANGED warnings

\* mutant: the elapsed counter is not reset when a cycle stops
stop_watering_noreset ==
    IF ~is_watering
    THEN /\ warnings' = warnings + 1
         /\ UNCHANGED <<motor, light, is_watering, seconds_since_last_watering,
                        completed, last_stop>>
    ELSE /\ motor' = gpio_set_level(motor, 0)
         /\ light' = gpio_set_level(light, 0)
         /\ is_watering' = FALSE
         /\ UNCHANGED seconds_since_last_watering
         /\ completed' = completed + 1
         /\ last_stop' = now
         /\ UNCHANGED warnings

stop_watering ==
    IF ~is_watering
    THEN /\ warnings' = warnings + 1
         /\ UNCHANGED <<motor, light, is_watering, seconds_since_last_watering,
                        completed, last_stop>>
    ELSE /\ motor' = gpio_set_level(motor, 0)
         /\ light' = gpio_set_level(light, 0)
         /\ is_watering' = FALSE
         /\ seconds_since_last_watering' = 0
         /\ completed' = completed + 1
         /\ last_stop' = now
         /\ UNCHANGED warnings

\* ------------------------------------------------------------------------
\* app_main
\* ------------------------------------------------------------------------

\* gpio_config, then both pins driven to 0
ConfigureGpio ==
    /\ pc_main = "init_gpio"
    /\ motor' = gpio_set_level(motor, 0)
    /\ light' = gpio_set_level(light, 0)
    /\ pc_main' = "create_timers"
    /\ UNCHANGED <<cfg_vars, report_vars, task_pc, is_watering, seconds_since_last_watering,
                   watering_timer, check_timer, now, warnings, errors, init_ok_logged,
                   starts, completed, last_start, prev_start, last_stop, wt_start_calls>>

\* mutant: the two periods are swapped between the xTimerCreate calls
CreateTimers_swapped(w_ok, c_ok) ==
    /\ pc_main = "create_timers"
    /\ watering_timer' = xTimerCreate(PeriodTicks, w_ok)
    /\ check_timer' = xTimerCreate(DurationTicks, c_ok)
    /\ IF ~w_ok \/ ~c_ok
       THEN /\ errors' = errors + 1
            /\ pc_main' = "aborted"
       ELSE /\ UNCHANGED errors
            /\ pc_main' = "create_task"
    /\ UNCHANGED <<cfg_vars, report_vars, task_pc, motor, light, is_watering,
                   seconds_since_last_watering, now, warnings, init_ok_logged,
                   starts, completed, last_start, prev_start, last_stop, wt_start_calls>>

\* mutant: only watering_timer is compared with NULL
CreateTimers_checkfirst(w_ok, c_ok) ==
    /\ pc_main = "create_timers"
    /\ watering_timer' = xTimerCreate(DurationTicks, w_ok)
    /\ check_timer' = xTimerCreate(PeriodTicks, c_ok)
    /\ IF ~w_ok
       THEN /\ errors' = errors + 1
            /\ pc_main' = "aborted"
       ELSE /\ UNCHANGED errors
            /\ pc_main' = "create_task"
    /\ UNCHANGED <<cfg_vars, report_vars, task_pc, motor, light, is_watering,
                   seconds_since_last_watering, now, warnings, init_ok_logged,
                   starts, completed, last_start, prev_start, last_stop, wt_start_calls>>

\* both xTimerCreate calls and the NULL check
CreateTimers(w_ok, c_ok) ==
    /\ pc_main = "create_timers"
    /\ watering_timer' = xTimerCreate(DurationTicks, w_ok)
    /\ check_timer' = xTimerCreate(PeriodTicks, c_ok)
    /\ IF ~w_ok \/ ~c_ok
       THEN /\ errors' = errors + 1
            /\ pc_main' = "aborted"
       ELSE /\ UNCHANGED errors
            /\ pc_main' = "create_task"
    /\ UNCHANGED <<cfg_vars, report_vars, task_pc, motor, light, is_watering,
                   seconds_since_last_watering, now, warnings, init_ok_logged,
                   starts, completed, last_start, prev_start, last_stop, wt_start_calls>>

\* xTaskCreate, whose result app_main does not look at
CreateTask(ok) ==
    /\ pc_main = "create_task"
    /\ task_pc' = IF ok THEN "start" ELSE "none"
    /\ pc_main' = "log_ok"
    /\ UNCHANGED <<cfg_vars, report_vars, motor, light, is_watering, seconds_since_last_watering,
                   watering_timer, check_timer, now, warnings, errors, init_ok_logged,
                   starts, completed, last_start, prev_start, last_stop, wt_start_calls>>

\* ESP_LOGI "Irrigation system initialized successfully"
LogInitOk ==
    /\ pc_main = "log_ok"
    /\ init_ok_logged' = TRUE
    /\ pc_main' = "done"
    /\ UNCHANGED <<cfg_vars, report_vars, task_pc, motor, light, is_watering,
                   seconds_since_last_watering, watering_timer, check_timer, now,
                   warnings, errors, starts, completed, last_start, prev_start,
                   last_stop, wt_start_calls>>

\* ------------------------------------------------------------------------
\* irrigation_task
\* ------------------------------------------------------------------------

\* mutant: the task does not start a cycle; the first one waits for the interval
TaskStartWatering_nostart(ok) ==
    /\ task_pc = "start"
    /\ task_pc' = "arm_check"
    /\ UNCHANGED <<cfg_vars, report_vars, boot_vars, start_vars, seconds_since_last_watering,
                   check_timer, now, completed, last_stop>>

\* the first start_watering call
TaskStartWatering(ok) ==
    /\ task_pc = "start"
    /\ start_watering(ok)
    /\ task_pc' = "arm_check"
    /\ UNCHANGED <<cfg_vars, report_vars, boot_vars, seconds_since_last_watering, check_timer, now,
                   completed, last_stop>>

\* xTimerStart(check_timer, 0), then the loop's first vTaskDelay
TaskStartCheckTimer(ok) ==
    /\ task_pc = "arm_check"
    /\ check_timer' = xTimerStart(check_timer, ok)
    /\ task_pc' = "loop"
    /\ task_delay' = pdMS_TO_TICKS(TASK_DELAY_MS)
    /\ UNCHANGED <<hour_counter, hours_until_next>>
    /\ UNCHANGED <<cfg_vars, boot_vars, start_vars, seconds_since_last_watering, now,
                   completed, last_stop>>

\* (WATERING_INTERVAL_MS - seconds_since_last_watering * 1000) / (60 * 60 * 1000)
\* in uint32_t arithmetic.  When the subtraction wraps, the dividend is
\* 2^32 - d with d the deficit, and 2^32 = 1193 * 3600000 + 167296.
HoursUntilNext ==
    LET d == seconds_since_last_watering * 1000 - WATERING_INTERVAL_MS
    IN  IF d <= 0 THEN (0 - d) \div MS_PER_HOUR
                  ELSE 1193 + ((167296 - d) \div MS_PER_HOUR)

\* mutant: the task loop itself counts the idle seconds
TaskLoop_counts ==
    /\ task_pc = "loop"
    /\ task_delay = 0
    /\ IF hour_counter + 1 >= StatusEverySec
       THEN /\ hour_counter' = 0
            /\ hours_until_next' = HoursUntilNext
       ELSE /\ hour_counter' = hour_counter + 1
            /\ UNCHANGED hours_until_next
    /\ seconds_since_last_watering' =
          IF is_watering THEN seconds_since_last_watering
                         ELSE seconds_since_last_watering + 1
    /\ task_delay' = pdMS_TO_TICKS(TASK_DELAY_MS)
    /\ UNCHANGED <<cfg_vars, boot_vars, start_vars, task_pc, check_timer, now,
                   completed, last_stop>>

\* one pass of the task's loop after vTaskDelay returns: count the pass, log
\* the status every StatusEverySec passes, sleep again
TaskLoop ==
    /\ task_pc = "loop"
    /\ task_delay = 0
    /\ IF hour_counter + 1 >= StatusEverySec
       THEN /\ hour_counter' = 0
            /\ hours_until_next' = HoursUntilNext
       ELSE /\ hour_counter' = hour_counter + 1
            /\ UNCHANGED hours_until_next
    /\ task_delay' = pdMS_TO_TICKS(TASK_DELAY_MS)
    /\ UNCHANGED <<cfg_vars, boot_vars, start_vars, task_pc,
                   seconds_since_last_watering, check_timer, now, completed,
                   last_stop>>

\* ------------------------------------------------------------------------
\* timer service
\* ------------------------------------------------------------------------

watering_timer_callback ==
    stop_watering

\* mutant: the interval test is > instead of >=
check_timer_callback_gt(ok) ==
    IF ~is_watering
    THEN /\ seconds_since_last_watering' = seconds_since_last_watering + 1
         /\ IF seconds_since_last_watering' * 1000 > WATERING_INTERVAL_MS
            THEN start_watering(ok)
            ELSE UNCHANGED start_vars
    ELSE UNCHANGED <<seconds_since_last_watering, start_vars>>

\* mutant: the elapsed counter is reset when the tick starts a cycle
check_timer_callback_resets(ok) ==
    IF ~is_watering
    THEN IF (seconds_since_last_watering + 1) * 1000 >= WATERING_INTERVAL_MS
         THEN /\ seconds_since_last_watering' = 0
              /\ start_watering(ok)
         ELSE /\ seconds_since_last_watering' = seconds_since_last_watering + 1
              /\ UNCHANGED start_vars
    ELSE UNCHANGED <<seconds_since_last_watering, start_vars>>

\* mutant: the is_watering test is missing, the counter runs during a cycle too
check_timer_callback_always(ok) ==
    /\ seconds_since_last_watering' = seconds_since_last_watering + 1
    /\ IF seconds_since_last_watering' * 1000 >= WATERING_INTERVAL_MS /\ ~is_watering
       THEN start_watering(ok)
       ELSE UNCHANGED start_vars

check_timer_callback(ok) ==
    IF ~is_watering
    THEN /\ seconds_since_last_watering' = seconds_since_last_watering + 1
         /\ IF seconds_since_last_watering' * 1000 >= WATERING_INTERVAL_MS
            THEN start_watering(ok)
            ELSE UNCHANGED start_vars
    ELSE UNCHANGED <<seconds_since_last_watering, start_vars>>

\* mutant: watering_timer created auto-reload (pdTRUE), so it stays armed
WateringTimerExpire_autoreload ==
    /\ watering_timer.active
    /\ watering_timer.rem = 0
    /\ watering_timer' = [watering_timer EXCEPT !.rem = watering_timer.period]
    /\ watering_timer_callback
    /\ UNCHANGED <<cfg_vars, report_vars, boot_vars, task_pc, check_timer, now, starts, last_start,
                   prev_start, wt_start_calls>>

\* the one-shot watering_timer expires: it goes dormant and its callback runs
WateringTimerExpire ==
    /\ watering_timer.active
    /\ watering_timer.rem = 0
    /\ watering_timer' = [watering_timer EXCEPT !.active = FALSE]
    /\ watering_timer_callback
    /\ UNCHANGED <<cfg_vars, report_vars, boot_vars, task_pc, check_timer, now, starts, last_start,
                   prev_start, wt_start_calls>>

\* the auto-reload check_timer expires: it is reloaded and its callback runs
CheckTimerExpire(ok) ==
    /\ check_timer.active
    /\ check_timer.rem = 0
    /\ check_timer' = [check_timer EXCEPT !.rem = check_timer.period]
    /\ check_timer_callback(ok)
    /\ UNCHANGED <<cfg_vars, report_vars, boot_vars, task_pc, now, completed, last_stop>>

Countdown(t) == IF t.active THEN [t EXCEPT !.rem = t.rem - 1] ELSE t

\* one RTOS tick passes.  Expired timers and the woken task are served within
\* their tick; boot code and the task's two consecutive calls take less than a
\* tick each.
Tick ==
    /\ now < MaxTime
    /\ pc_main \in {"done", "aborted"}
    /\ task_pc # "start"
    /\ task_pc = "arm_check" => now = last_start
    /\ ~(watering_timer.active /\ watering_timer.rem = 0)
    /\ ~(check_timer.active /\ check_timer.rem = 0)
    /\ ~(task_pc = "loop" /\ task_delay = 0)
    /\ now' = now + 1
    /\ watering_timer' = Countdown(watering_timer)
    /\ check_timer' = Countdown(check_timer)
    /\ task_delay' = IF task_pc = "loop" THEN task_delay - 1 ELSE task_delay
    /\ UNCHANGED <<hour_counter, hours_until_next>>
    /\ UNCHANGED <<cfg_vars, boot_vars, task_pc, motor, light, is_watering,
                   seconds_since_last_watering, warnings, starts, completed,
                   last_start, prev_start, last_stop, wt_start_calls>>

\* outcomes of xTimerStart under Spec: the timer command queue has room
XTimerStartOutcomes == {TRUE}

Next ==
    \/ ConfigureGpio
    \/ \E w_ok \in BOOLEAN, c_ok \in BOOLEAN : CreateTimers(w_ok, c_ok)
    \/ \E ok \in BOOLEAN : CreateTask(ok)
    \/ LogInitOk
    \/ \E ok \in XTimerStartOutcomes : TaskStartWatering(ok)
    \/ \E ok \in XTimerStartOutcomes : TaskStartCheckTimer(ok)
    \/ TaskLoop
    \/ WateringTimerExpire
    \/ \E ok \in XTimerStartOutcomes : CheckTimerExpire(ok)
    \/ Tick

Spec == Init /\ [][Next]_vars

\* ------------------------------------------------------------------------
\* SpecFault: the same program with collaborators that report failure: the
\* GPIO driver may reject every call, and any xTimerStart (block time 0) may
\* find the timer command queue full
\* ------------------------------------------------------------------------

InitFault ==
    /\ InitState
    /\ gpio_ok \in BOOLEAN

NextFault ==
    \/ ConfigureGpio
    \/ \E w_ok \in BOOLEAN, c_ok \in BOOLEAN : CreateTimers(w_ok, c_ok)
    \/ \E ok \in BOOLEAN : CreateTask(ok)
    \/ LogInitOk
    \/ \E ok \in BOOLEAN : TaskStartWatering(ok)
    \/ \E ok \in BOOLEAN : TaskStartCheckTimer(ok)
    \/ TaskLoop
    \/ WateringTimerExpire
    \/ \E ok \in BOOLEAN : CheckTimerExpire(ok)
    \/ Tick

SpecFault == InitFault /\ [][NextFault]_vars

\* ------------------------------------------------------------------------
\* SpecCmd: start_watering and stop_watering called by a test driver in any
\* state the running system can be in (the spec's scenario B)
\* ------------------------------------------------------------------------

CmdInit ==
    /\ WATERING_DURATION_MS \in {s * 1000 : s \in 1..MaxDurationSec}
    /\ WATERING_INTERVAL_MS \in {s * 1000 : s \in 1..MaxIntervalSec}
    /\ gpio_ok = TRUE
    /\ hour_counter = 0
    /\ task_delay = pdMS_TO_TICKS(TASK_DELAY_MS)
    /\ hours_until_next = -1
    /\ pc_main = "done"
    /\ task_pc = "loop"
    /\ is_watering \in BOOLEAN
    /\ motor = (IF is_watering THEN 1 ELSE 0)
    /\ light = motor
    /\ seconds_since_last_watering \in
         IF is_watering THEN {0, IntervalSec} ELSE 0..(IntervalSec - 1)
    /\ watering_timer \in
         IF is_watering
         THEN {[created |-> TRUE, active |-> TRUE, rem |-> r,
                period |-> DurationTicks] : r \in 0..DurationTicks}
         ELSE {[created |-> TRUE, active |-> FALSE, rem |-> 0,
                period |-> DurationTicks]}
    /\ check_timer \in
         {[created |-> TRUE, active |-> TRUE, rem |-> r,
           period |-> PeriodTicks] : r \in 1..PeriodTicks}
    /\ now = 0
    /\ warnings = 0
    /\ errors = 0
    /\ init_ok_logged = TRUE
    /\ starts = 0
    /\ completed = 0
    /\ last_start = -1
    /\ prev_start = -1
    /\ last_stop = -1
    /\ wt_start_calls = 0

CallsLeft == warnings + starts + completed < MaxCalls

CmdStart(ok) ==
    /\ CallsLeft
    /\ start_watering(ok)
    /\ UNCHANGED <<cfg_vars, report_vars, boot_vars, task_pc, seconds_since_last_watering,
                   check_timer, now, completed, last_stop>>

CmdStop ==
    /\ CallsLeft
    /\ stop_watering
    /\ UNCHANGED <<cfg_vars, report_vars, boot_vars, task_pc, watering_timer, check_timer, now,
                   starts, last_start, prev_start, wt_start_calls>>

CmdNext ==
    \/ \E ok \in XTimerStartOutcomes : CmdStart(ok)
    \/ CmdStop

SpecCmd == CmdInit /\ [][CmdNext]_vars

\* ------------------------------------------------------------------------
\* Claims
\* ------------------------------------------------------------------------

PinsInitialised == pc_main # "init_gpio"

\* C1: once app_main has initialised the pins, the motor pin and the light
\* pin are both at level 1 if is_watering is true and both at level 0 if not.
C1_ActuatorMirroring ==
    PinsInitialised =>
        /\ motor = (IF is_watering THEN 1 ELSE 0)
        /\ light = (IF is_watering THEN 1 ELSE 0)

\* a second cycle is running: the pins went 0 -> 1 -> 0 -> 1
C1_Witness ==
    PinsInitialised /\ is_watering /\ completed >= 1 /\ motor = 1 /\ light = 1

\* C2: at most one cycle is active at any time (cycles started and cycles
\* completed differ by one exactly while is_watering), and every step that
\* calls xTimerStart on watering_timer finds the timer dormant and is_watering
\* false.
C2_MutualExclusion ==
    [][ /\ starts' - completed' = (IF is_watering' THEN 1 ELSE 0)
        /\ (wt_start_calls' # wt_start_calls =>
                ~watering_timer.active /\ ~is_watering) ]_vars

\* the watering timer has been armed for a second cycle
C2_Witness ==
    wt_start_calls >= 2 /\ watering_timer.active /\ is_watering

\* C3: start_watering called while is_watering is true, and stop_watering
\* called while is_watering is false, change nothing but the warning count,
\* which grows by exactly one: state, pins and both timers stay as they were
\* and no xTimerStart call is made.
RedundantCall ==
    \/ is_watering /\ \E ok \in XTimerStartOutcomes : CmdStart(ok)
    \/ ~is_watering /\ CmdStop

C3_RedundantIdempotent ==
    [][ RedundantCall =>
          /\ warnings' = warnings + 1
          /\ UNCHANGED <<is_watering, seconds_since_last_watering, motor, light,
                         watering_timer, check_timer, wt_start_calls, starts,
                         completed, last_start, prev_start, last_stop>> ]_vars

\* both kinds of redundant call have been made: a start while watering with
\* the timer armed, and before it a stop while idle
C3_Witness ==
    /\ warnings >= 2
    /\ is_watering /\ watering_timer.active /\ starts = 1 /\ completed = 0

\* C4: on a boot that creates both timers and the task, nothing changes
\* CycleState before irrigation_task's first step, and that step takes it from
\* IDLE to WATERING with seconds_since_last_watering 0, at tick 0, with the
\* check timer not yet started.
C4_FirstCycleAtBoot ==
    [][ /\ (task_pc' \in {"none", "start"} =>
               ~is_watering' /\ seconds_since_last_watering' = 0 /\ starts' = 0
               /\ ~check_timer'.active)
        /\ (task_pc = "start" /\ task_pc' # "start" =>
               /\ ~is_watering /\ is_watering'
               /\ seconds_since_last_watering = 0
               /\ seconds_since_last_watering' = 0
               /\ starts = 0 /\ starts' = 1
               /\ now' = 0
               /\ ~check_timer.active /\ ~check_timer'.active) ]_vars

\* the first cycle runs and the check timer is still dormant
C4_Witness ==
    task_pc = "arm_check" /\ is_watering /\ starts = 1 /\ ~check_timer.active

TaskStarted == task_pc \in {"arm_check", "loop"}
NormalConfig == WATERING_DURATION_MS < WATERING_INTERVAL_MS

\* C5 as claimed: with 0 < duration < interval, two consecutive cycles start
\* exactly one watering interval apart.
C5_SpacingIsInterval ==
    (NormalConfig /\ prev_start >= 0) => last_start - prev_start = IntervalTicks

\* C5 as amended: with 0 < duration < interval, two consecutive cycles start
\* one duration plus one idle phase apart, the idle phase being the interval,
\* less up to one check period: the spacing lies between duration + interval
\* - check period and duration + interval.
C5_SpacingIsDurationPlusInterval ==
    (NormalConfig /\ prev_start >= 0) =>
        /\ last_start - prev_start >= DurationTicks + IntervalTicks - PeriodTicks
        /\ last_start - prev_start <= DurationTicks + IntervalTicks

\* a third cycle has started, a full duration + interval after the second
C5_Witness ==
    /\ NormalConfig /\ starts >= 3
    /\ last_start - prev_start = DurationTicks + IntervalTicks

\* C6 as claimed: at every time T after boot the number of completed cycles
\* differs from T / interval by at most 1 (|completed * interval - T| <=
\* interval), here on a normal boot with duration < interval.
C6_ConservationPerInterval ==
    (TaskStarted /\ NormalConfig) =>
        /\ completed * IntervalTicks - now <= IntervalTicks
        /\ now - completed * IntervalTicks <= IntervalTicks

\* C6 as amended: on a boot that starts the task, the c cycles completed by
\* time T satisfy duration + (c - 1) * (duration + interval - check period)
\* <= T (for c >= 1) and T <= duration + c * (duration + interval): one cycle
\* completes per duration + interval (less up to a check period), not per
\* interval.
C6_ConservationPerCycle ==
    TaskStarted =>
        /\ (completed >= 1 =>
              now >= DurationTicks
                     + (completed - 1) * (DurationTicks + IntervalTicks - PeriodTicks))
        /\ now <= DurationTicks + completed * (DurationTicks + IntervalTicks)

\* two cycles are complete and the run is longer than three intervals
C6_Witness ==
    TaskStarted /\ NormalConfig /\ completed >= 2 /\ now > 3 * IntervalTicks

\* C7: is_watering goes from true to false only in the step that serves the
\* expiry of watering_timer, exactly the watering duration after the cycle's
\* start; while a cycle runs no step moves its start or its expiry, and a
\* cycle is never older than the duration. For every duration and interval.
C7_ExactDuration ==
    [][ /\ (is_watering /\ ~is_watering' =>
               /\ watering_timer.active /\ watering_timer.rem = 0
               /\ ~watering_timer'.active
               /\ now - last_start = DurationTicks)
        /\ (is_watering /\ is_watering' =>
               /\ last_start' = last_start
               /\ watering_timer'.active
               /\ watering_timer'.rem = DurationTicks - (now' - last_start')) ]_vars

\* a cycle at least as long as the interval has ended on time, after check
\* ticks fired during it
C7_Witness ==
    /\ WATERING_DURATION_MS >= WATERING_INTERVAL_MS
    /\ ~is_watering /\ completed >= 2
    /\ last_stop - last_start = DurationTicks

\* C8 as claimed: a cycle that follows a stop starts no earlier than a full
\* watering interval after that stop.
C8_IdleGapAtLeastInterval ==
    (is_watering /\ starts >= 2) => last_start - last_stop >= IntervalTicks

\* C9: when xTimerCreate returns NULL for either timer, app_main logs one
\* error and returns: the task is never created, "initialized successfully" is
\* not logged, no cycle starts, is_watering stays false and both pins stay 0.
C9_TimerCreateFailureFatal ==
    /\ (pc_main \notin {"init_gpio", "create_timers"}
        /\ (~watering_timer.created \/ ~check_timer.created)) => pc_main = "aborted"
    /\ pc_main = "aborted" =>
         /\ errors = 1
         /\ ~init_ok_logged
         /\ task_pc = "none"
         /\ starts = 0 /\ ~is_watering
         /\ motor = 0 /\ light = 0
         /\ ~watering_timer.active /\ ~check_timer.active

\* check_timer could not be created; time has passed since and nothing runs
C9_Witness ==
    /\ pc_main = "aborted" /\ watering_timer.created /\ ~check_timer.created
    /\ now >= 2 /\ ~is_watering /\ motor = 0

\* C10 as claimed: when xTaskCreate fails, app_main logs an error and does
\* not log "Irrigation system initialized successfully".
C10_TaskCreateFailureFatal ==
    (pc_main = "done" /\ task_pc = "none") => (errors >= 1 /\ ~init_ok_logged)

\* C11 as claimed: when the GPIO driver reports failure, initialization is
\* aborted: the task is not started, no timer is armed, no cycle begins and
\* success is not logged.
C11_GpioFailureFatal ==
    (~gpio_ok /\ pc_main # "init_gpio") =>
        /\ task_pc = "none"
        /\ starts = 0
        /\ ~watering_timer.active /\ ~check_timer.active
        /\ ~init_ok_logged

\* C12: in every state seconds_since_last_watering * 1000 is at most
\* WATERING_INTERVAL_MS, so the status computation never wraps: every value it
\* has produced is the plain quotient, at most WATERING_INTERVAL_MS / one hour.
C12_StatusNeverNegative ==
    /\ seconds_since_last_watering * 1000 <= WATERING_INTERVAL_MS
    /\ hours_until_next <= WATERING_INTERVAL_MS \div MS_PER_HOUR

\* a status was computed while the counter stood at the full interval
C12_Witness ==
    /\ seconds_since_last_watering * 1000 = WATERING_INTERVAL_MS
    /\ hours_until_next >= 0 /\ starts >= 2 /\ hour_counter = 0 /\ task_delay > 0

\* C13 as claimed: whatever xTimerStart returns, is_watering is true exactly
\* when watering_timer is armed.
C13_StateTimerAgreement ==
    is_watering <=> watering_timer.active

\* a state from which WATERING is never left: is_watering with watering_timer
\* dormant; and one from which IDLE is never left: the task in its loop,
\* check_timer dormant
StuckWatering == is_watering /\ ~watering_timer.active
StuckIdle == task_pc = "loop" /\ ~is_watering /\ ~check_timer.active

\* once stuck, stuck for ever: no step leaves StuckWatering or StuckIdle
OnceStuckAlwaysStuck ==
    [][ (StuckWatering => StuckWatering') /\ (StuckIdle => StuckIdle') ]_vars

\* C14 as claimed: also when an xTimerStart call fails, no reachable state is
\* stuck in WATERING or in IDLE.
C14_NeverStuck ==
    ~StuckWatering /\ ~StuckIdle

\* C15 as claimed: right after a start made by a check tick,
\* seconds_since_last_watering is 0.
TickStartedCycle == is_watering /\ starts >= 2 /\ now = last_start

C15_ResetAtStart ==
    TickStartedCycle => seconds_since_last_watering = 0

\* C15 as amended: a check tick that makes the counter reach the interval
\* starts a cycle and leaves the counter at that value (the interval in
\* seconds) for the whole cycle; it is reset to 0 by the stop that ends the
\* cycle.
C15_ResetAtStop ==
    [][ /\ (task_pc = "loop" /\ ~is_watering /\ is_watering' =>
               /\ seconds_since_last_watering' = seconds_since_last_watering + 1
               /\ seconds_since_last_watering' = IntervalSec)
        /\ (task_pc = "loop" /\ ~is_watering
            /\ seconds_since_last_watering' = IntervalSec => is_watering')
        /\ (is_watering /\ is_watering' => UNCHANGED seconds_since_last_watering)
        /\ (is_watering /\ ~is_watering' => seconds_since_last_watering' = 0) ]_vars

\* a tick-started cycle has ended and reset the counter
C15_Witness ==
    /\ completed >= 2 /\ ~is_watering /\ now = last_stop
    /\ seconds_since_last_watering = 0

\* C16: a check tick served while is_watering is true changes no state, pin
\* or armed timer; one served while is_watering is false adds exactly 1 to
\* seconds_since_last_watering; a pass of the task's status loop changes
\* neither is_watering nor seconds_since_last_watering.
C16_ElapsedCounterFrame ==
    [][ /\ (is_watering /\ (\E ok \in XTimerStartOutcomes : CheckTimerExpire(ok)) =>
               /\ UNCHANGED <<is_watering, seconds_since_last_watering, motor, light,
                              watering_timer, warnings, starts, completed,
                              wt_start_calls>>
               /\ check_timer'.active)
        /\ (~is_watering /\ (\E ok \in XTimerStartOutcomes : CheckTimerExpire(ok)) =>
               seconds_since_last_watering' = seconds_since_last_watering + 1)
        /\ (TaskLoop => UNCHANGED <<is_watering, seconds_since_last_watering, motor,
                                    light, watering_timer, check_timer>>) ]_vars

\* check ticks were served during a cycle longer than a check period, idle
\* ticks were counted, and the status loop has reported
C16_Witness ==
    /\ WATERING_DURATION_MS > TIMER_PERIOD_MS
    /\ completed >= 1 /\ ~is_watering /\ seconds_since_last_watering >= 1
    /\ hours_until_next >= 0

\* C17: the running system never issues a redundant command: neither warning
\* is ever logged, whatever the collaborators answer.
C17_NoRedundantCommand ==
    warnings = 0

\* several cycles have started and stopped without a warning
C17_Witness ==
    warnings = 0 /\ starts >= 3 /\ completed >= 2

\* C18: until irrigation_task has made its start_watering call no timer is
\* armed, so no callback can run beside it; after it every step that writes
\* is_watering or seconds_since_last_watering is the service of a timer expiry,
\* and the task's own steps leave both as they are.
C18_SingleWriter ==
    [][ /\ (task_pc \in {"none", "start"} =>
               ~watering_timer.active /\ ~check_timer.active)
        /\ (task_pc = "start" /\ task_pc' # "start" =>
               /\ ~check_timer'.active
               /\ (watering_timer'.active => watering_timer'.rem > 0))
        /\ (task_pc # "start"
            /\ <<is_watering, seconds_since_last_watering>>'
                 # <<is_watering, seconds_since_last_watering>> =>
               \/ watering_timer.active /\ watering_timer.rem = 0
                  /\ ~watering_timer'.active
               \/ check_timer.active /\ check_timer.rem = 0
                  /\ check_timer'.rem = check_timer.period) ]_vars

\* the task has reported from its loop while callbacks ran two cycles
C18_Witness ==
    task_pc = "loop" /\ hours_until_next >= 0 /\ starts >= 2 /\ completed >= 1

====
